---- MODULE Spec2Model ----
(***************************************************************************)
(* SyncMeet 1:1: the negotiation and session-lifecycle state machine of    *)
(* hooks/useWebRTC.ts and services/signaling.ts.                           *)
(*                                                                         *)
(* Every page (participant) runs one instance of the useWebRTC hook and    *)
(* one PeerSignalingService.  The relay carries envelopes between the      *)
(* pages of a room; it is unordered and may duplicate.  An async handler   *)
(* runs to its next await in one step; what it awaits is an operation on   *)
(* the RTCPeerConnection's operations chain, which the Media Engine runs   *)
(* in FIFO order, resuming the handler in the step that settles it.        *)
(***************************************************************************)
EXTENDS Integers, Sequences, FiniteSets, TLC

VARIABLES
    idA, idB, roleA, roleB,  \* Role Arbiter on its own: two identifiers, two decisions
    monitor,    \* Quality Monitor on its own: the values put in and what is computed for them
    members,    \* the pages that may enter the room in this run
    carried,    \* what the relay delivers in this run: envelope types and pages (it loses the rest)
    budget,     \* what is left of the bounded environment events
    inRoom,     \* isInRoom / signaling.room, per page
    pc,         \* peerConnection.current, per page
    queue,      \* iceCandidatesQueue.current, per page
    chain,      \* the operations chain of the page's RTCPeerConnection
    net,        \* envelopes in flight on the relay
    made,       \* descriptions created and candidates gathered so far, per page
    disc,       \* discoveryInterval.current is set, per page
    ui,         \* connectionState and remoteUserName, per page
    media,      \* local tracks and local/remote MediaState, per page
    epoch,      \* ghost: Sessions closed so far, per page
    buffered,   \* ghost: candidates put in the buffer since it was last cleared, per page
    glared,     \* ghost: two pages have been in have-local-offer at the same time,
                \* and the pages that have handled an offer since
    last        \* ghost: the step just taken

roleVars == <<idA, idB, roleA, roleB, monitor>>
envVars  == <<members, carried>>
vars == <<idA, idB, roleA, roleB, monitor, members, carried, budget, inRoom, pc, queue, chain,
          net, made, disc, ui, media, epoch, buffered, glared, last>>

(***************************************************************************)
(* Bounds of the model.                                                    *)
(***************************************************************************)
MaxIdLen == 2      \* longest identifier of the Role Arbiter runs
MaxUnit == 2       \* code units 0..MaxUnit in those identifiers
MaxJoins == 1      \* announces a page repeats (burst timers, heartbeat, peer-join reply)
MaxCands == 2      \* candidates the Media Engines gather
MaxDup == 1        \* envelopes the relay delivers a second time
MaxLeaves == 1     \* times a page leaves the room
MaxIce == 2        \* connectivity reports of a page's Media Engine
MaxIceFail == 1    \* candidates the Media Engine refuses as malformed
MaxLoss == 1       \* envelopes the relay loses
MaxDepCands == 1   \* candidates a page gathers in the runs with departures
MaxToggles == 1    \* clicks on the media controls
MaxChats == 1      \* chat messages and typing notices sent
MaxEcho == 1       \* envelopes the relay hands back to their sender
MaxSamples == 3    \* values put into the Quality Monitor's functions in one run
MaxShareToggles == 2 \* clicks on the media controls in the runs without departures
MaxTicks == 2      \* ticks of the Quality Monitor's interval
MaxMonitorIce == 3 \* connectivity reports of a page in the runs with the Quality Monitor
MaxDrainCands == 3 \* candidates the Media Engines gather in the runs of the drain
MaxEdits == 2      \* key strokes in the notes panel

(***************************************************************************)
(* Identifiers.  A userId is a string; JavaScript compares strings by code *)
(* unit, a proper prefix being the smaller.                                *)
(***************************************************************************)
Peers == {"alice", "bob", "carol"}

userId(p) ==
    CASE p = "alice" -> <<97, 108, 105, 99, 101>>
      [] p = "bob"   -> <<98, 111, 98>>
      [] OTHER       -> <<99, 97, 114, 111, 108>>

\* a comparison that looks at the first code unit only
StrGTMut(a, b) ==
    IF a = <<>> \/ b = <<>> THEN FALSE
    ELSE Head(a) > Head(b)

RECURSIVE StrGT(_, _)
StrGT(a, b) ==
    IF a = <<>> THEN FALSE
    ELSE IF b = <<>> THEN TRUE
    ELSE IF Head(a) # Head(b) THEN Head(a) > Head(b)
    ELSE StrGT(Tail(a), Tail(b))

\* a tie breaker that makes every page the Caller
isCallerAlways(myId, remoteId) == TRUE

\* const isCaller = myId > remoteId
isCaller(myId, remoteId) == StrGT(myId, remoteId)

decideRole(myId, remoteId) == IF isCaller(myId, remoteId) THEN "Caller" ELSE "Listener"

Ids == UNION {[1..n -> 0..MaxUnit] : n \in 0..MaxIdLen}

(***************************************************************************)
(* Values.                                                                 *)
(***************************************************************************)
NoDesc == [t |-> "none", by |-> "none", n |-> 0, re |-> "none"]

\* the n-th description createOffer returned on page p
Offer(p, n) == [t |-> "offer", by |-> p, n |-> n, re |-> "none"]

\* the description createAnswer returns on page p for the remote offer o
Answer(p, o) == [t |-> "answer", by |-> p, n |-> o.n, re |-> o.by]

\* a candidate: the k-th gathered by page `by`; ep is ghost, the number of
\* Sessions its receiver had closed when it was sent
NoCand == [by |-> "none", k |-> 0, ep |-> 0]

NoPC ==
    [alive |-> FALSE, sig |-> "closed", ice |-> "closed",
     pendLocal |-> NoDesc, curLocal |-> NoDesc,
     pendRemote |-> NoDesc, curRemote |-> NoDesc,
     handed |-> <<>>, iceRestart |-> FALSE, open |-> 0,
     cap |-> 0, caps |-> 0, videoTrack |-> "none"]

\* new RTCPeerConnection(rtcConfig) with the local tracks added: videoTrack is
\* the track of the video sender, cap its encodings[0].maxBitrate (0: undefined).  Ghosts: open, the connections the page has
\* constructed and not closed; caps, the calls of setParameters

NewPC ==
    [alive |-> TRUE, sig |-> "stable", ice |-> "new",
     pendLocal |-> NoDesc, curLocal |-> NoDesc,
     pendRemote |-> NoDesc, curRemote |-> NoDesc,
     handed |-> <<>>, iceRestart |-> FALSE, open |-> 1,
     cap |-> 0, caps |-> 0, videoTrack |-> "camera"]

\* pc.localDescription and pc.remoteDescription: the pending one, else the current one
localDescription(c) == IF c.pendLocal # NoDesc THEN c.pendLocal ELSE c.curLocal
remoteDescription(c) == IF c.pendRemote # NoDesc THEN c.pendRemote ELSE c.curRemote

\* a createPeerConnection without its first line
createPeerConnectionAlways(c) == [NewPC EXCEPT !.open = c.open + 1]

\* createPeerConnection: the existing connection, else a new one
createPeerConnection(c) == IF c.alive THEN c ELSE [NewPC EXCEPT !.open = c.open + 1]

NoMedia ==
    [tracks |-> FALSE, audioEnabled |-> TRUE, videoEnabled |-> TRUE,
     isScreenSharing |-> FALSE,
     remoteIsMicOn |-> TRUE, remoteIsCameraOn |-> TRUE, remoteIsScreenSharing |-> FALSE,
     screenTrack |-> FALSE, capture |-> "none", captureEp |-> 0]

NoUi ==
    [connectionState |-> "new", remoteUserName |-> "none",
     messages |-> <<>>, isRemoteTyping |-> FALSE, isChatOpen |-> FALSE,
     networkQuality |-> 4, stats |-> "none", statsEp |-> 0, content |-> ""]

Envelope(type, from, to, sdp, cand, kind, flag) ==
    [type |-> type, senderId |-> from, to |-> to, sdp |-> sdp, cand |-> cand,
     kind |-> kind, flag |-> flag, ids |-> {}]

\* one operation on the chain: the source line that awaits it, the handler
\* suspended on it ("none": nobody resumes), and the handler's payload.senderId;
\* copy is ghost: the same call with the same description was already pending
Op(op, at, h, sdp, cand, to) ==
    [op |-> op, at |-> at, h |-> h, sdp |-> sdp, cand |-> cand, to |-> to,
     copy |-> FALSE, ahead |-> <<>>]

\* the call of line `at` with the description d is pending on the chain
Pending(ch, at, d) == \E i \in 1..Len(ch) : ch[i].at = at /\ ch[i].sdp = d

\* the pages an envelope published by p reaches: the others in the room
Recipients(p) == {q \in carried.to : q # p /\ inRoom[q]}

\* PeerSignalingService.send: broadcast within the room
Send(p, type, sdp, kind, flag) ==
    IF type \in carried.types /\ inRoom[p]
    THEN {Envelope(type, p, q, sdp, NoCand, kind, flag) : q \in Recipients(p)}
    ELSE {}

\* sendMediaStatus(audio), sendMediaStatus(video), as handleJoin and handleOffer send them
SendStatus(p) ==
    Send(p, "media-status", NoDesc, "audio", media[p].audioEnabled)
    \cup Send(p, "media-status", NoDesc, "video",
              IF media[p].isScreenSharing THEN TRUE ELSE media[p].videoEnabled)

SendShareStatus(p) ==
    Send(p, "screen-share-status", NoDesc, "screen", media[p].isScreenSharing)

(***************************************************************************)
(* The Media Engine's RTCPeerConnection operations.  Each returns          *)
(* [ok, pc, sdp]: whether the promise resolves, the connection afterwards, *)
(* and the description a create call produced.                             *)
(***************************************************************************)
Result(ok, c, d) == [ok |-> ok, pc |-> c, sdp |-> d]

\* pc.createOffer(): a new description each call
createOffer(p, c) == Result(TRUE, c, Offer(p, made[p].offers + 1))

\* pc.createAnswer(): needs a remote offer to answer
createAnswer(p, c) ==
    IF c.sig = "have-remote-offer"
    THEN Result(TRUE, c, Answer(p, c.pendRemote))
    ELSE Result(FALSE, c, NoDesc)

\* pc.setLocalDescription(d), d an offer or an answer
setLocalDescription(c, d) ==
    IF d.t = "offer" /\ c.sig \in {"stable", "have-local-offer"}
    THEN Result(TRUE, [c EXCEPT !.sig = "have-local-offer", !.pendLocal = d], d)
    ELSE IF d.t = "answer" /\ c.sig = "have-remote-offer"
    THEN Result(TRUE, [c EXCEPT !.sig = "stable", !.curLocal = d,
                                !.curRemote = c.pendRemote,
                                !.pendLocal = NoDesc, !.pendRemote = NoDesc], d)
    ELSE Result(FALSE, c, d)

\* pc.setLocalDescription({type: "rollback"})
rollback(c) ==
    IF c.sig = "have-local-offer"
    THEN Result(TRUE, [c EXCEPT !.sig = "stable", !.pendLocal = NoDesc], NoDesc)
    ELSE IF c.sig = "have-remote-offer"
    THEN Result(TRUE, [c EXCEPT !.sig = "stable", !.pendRemote = NoDesc], NoDesc)
    ELSE Result(FALSE, c, NoDesc)

\* pc.setRemoteDescription(d).  An offer that meets an outstanding local offer is
\* refused by an engine without implicit rollback and replaces it in one with.
setRemoteDescription(c, d, implicit) ==
    IF d.t = "offer" /\ c.sig \in {"stable", "have-remote-offer"}
    THEN Result(TRUE, [c EXCEPT !.sig = "have-remote-offer", !.pendRemote = d], d)
    ELSE IF d.t = "offer" /\ c.sig = "have-local-offer" /\ implicit
    THEN Result(TRUE, [c EXCEPT !.sig = "have-remote-offer", !.pendRemote = d,
                                !.pendLocal = NoDesc], d)
    ELSE IF d.t = "answer" /\ c.sig = "have-local-offer"
    THEN Result(TRUE, [c EXCEPT !.sig = "stable", !.curRemote = d,
                                !.curLocal = c.pendLocal,
                                !.pendLocal = NoDesc, !.pendRemote = NoDesc], d)
    ELSE Result(FALSE, c, d)

\* pc.addIceCandidate(cand): the candidate is handed over; the engine refuses it
\* when there is no remote description, and may refuse it as malformed
addIceCandidate(c, cand, fromBuffer, accept) ==
    Result(accept /\ remoteDescription(c) # NoDesc,
           [c EXCEPT !.handed = Append(@, [cand |-> cand, buf |-> fromBuffer])],
           NoDesc)

\* the operation at the head of the chain, run
Run(p, o, implicit, accept) ==
    CASE o.op = "createOffer"  -> createOffer(p, pc[p])
      [] o.op = "createAnswer" -> createAnswer(p, pc[p])
      [] o.op = "setLocal"     -> setLocalDescription(pc[p], o.sdp)
      [] o.op = "rollback"     -> rollback(pc[p])
      [] o.op = "setRemote"    -> setRemoteDescription(pc[p], o.sdp, implicit)
      [] OTHER                 -> addIceCandidate(pc[p], o.cand, o.at = 71, accept)

(***************************************************************************)
(* One page's handlers.  A handler step maps the page's state to its state *)
(* at the handler's next await; `out` collects what it publishes, `acted`  *)
(* says whether it got past its guards.                                    *)
(***************************************************************************)
St(p) ==
    [pc |-> pc[p], queue |-> queue[p], chain |-> chain[p], ui |-> ui[p],
     media |-> media[p], disc |-> disc[p], epoch |-> epoch[p],
     buffered |-> buffered[p], out |-> {}, acted |-> FALSE]

\* iceCandidatesQueue.current.pop(): the newest first
popNewest(q) == [item |-> q[Len(q)], rest |-> SubSeq(q, 1, Len(q) - 1)]

\* iceCandidatesQueue.current.shift()
shift(q) == [item |-> Head(q), rest |-> Tail(q)]

\* what follows `await processIceQueue()` in the handler h
AfterDrain(h, to) ==
    IF h = "handleOffer"
    THEN <<Op("createAnswer", 423, h, NoDesc, NoCand, to)>>
    ELSE <<>>

\* the while loop of processIceQueue, up to its await
DrainLoop(s, h, to) ==
    IF Len(s.queue) > 0
    THEN LET x == shift(s.queue)
         IN  [s EXCEPT !.queue = x.rest,
                       !.chain = Append(@, Op("addIce", 71, h, NoDesc, x.item, to))]
    ELSE [s EXCEPT !.chain = @ \o AfterDrain(h, to)]

\* processIceQueue, called from the handler h
processIceQueue(s, h, to) ==
    IF ~s.pc.alive \/ remoteDescription(s.pc) = NoDesc
    THEN [s EXCEPT !.chain = @ \o AfterDrain(h, to)]
    ELSE DrainLoop(s, h, to)

\* canOffer of handleJoin
canOffer(c) ==
    /\ c.sig \in {"stable", "have-local-offer"}
    /\ c.ice \notin {"connected", "completed"}

handleJoin(p, m) ==
    LET s0 == [St(p) EXCEPT !.ui.remoteUserName = m.senderId,
                            !.out = SendStatus(p) \cup SendShareStatus(p),
                            !.acted = TRUE]
        c  == createPeerConnection(s0.pc)
    IN  IF isCaller(userId(p), userId(m.senderId))
        THEN IF canOffer(c)
             THEN [s0 EXCEPT !.pc = c,
                             !.chain = Append(@, Op("createOffer", 384, "handleJoin",
                                                    NoDesc, NoCand, m.senderId))]
             ELSE [s0 EXCEPT !.pc = c]
        ELSE s0

\* the two branches of handleOffer's try block, up to the await
ApplyOfferNoRollback(c, m) ==
    <<Op("setRemote", IF c.sig # "stable" THEN 415 ELSE 418, "handleOffer",
         m.sdp, NoCand, m.senderId)>>

ApplyOffer(c, m) ==
    IF c.sig # "stable"
    THEN <<Op("rollback", 414, "none", NoDesc, NoCand, m.senderId),
           Op("setRemote", 415, "handleOffer", m.sdp, NoCand, m.senderId)>>
    ELSE <<Op("setRemote", 418, "handleOffer", m.sdp, NoCand, m.senderId)>>

handleOffer(p, m) ==
    LET c == createPeerConnection(pc[p])
    IN  [St(p) EXCEPT !.ui.remoteUserName = IF @ = "none" THEN "Peer" ELSE @,
                      !.out = SendStatus(p),
                      !.pc = c,
                      !.chain = @ \o ApplyOffer(c, m),
                      !.acted = TRUE]

handleAnswer(p, m) ==
    IF pc[p].alive /\ pc[p].sig = "have-local-offer"
    THEN [St(p) EXCEPT !.chain = Append(@, [Op("setRemote", 439, "handleAnswer",
                                               m.sdp, NoCand, m.senderId)
                                            EXCEPT !.copy = Pending(chain[p], 439, m.sdp)]),
                       !.acted = TRUE]
    ELSE St(p)

handleIceCandidate(p, m) ==
    IF pc[p].alive /\ remoteDescription(pc[p]) # NoDesc
    THEN [St(p) EXCEPT !.chain = Append(@, [Op("addIce", 453, "handleIceCandidate",
                                               NoDesc, m.cand, m.senderId)
                                            EXCEPT !.ahead = queue[p]]),
                       !.acted = TRUE]
    ELSE [St(p) EXCEPT !.queue = Append(@, m.cand),
                       !.buffered = Append(@, m.cand)]

\* signaling.ts holds three definitions of PeerSignalingService; the source
\* does not determine which of them the exported `signaling` is
Definitions == {"first", "second", "third"}

\* the definition in force: the first one unless the run draws it
bound == IF "def" \in DOMAIN carried THEN carried.def ELSE "first"

\* signaling.joinRoom() called while this.room is set
joinRoom(p, def) ==
    IF def = "first" THEN Send(p, "join", NoDesc, "none", FALSE) ELSE {}

\* startDiscovery: announce now and set the interval
startDiscovery(p, s) ==
    [s EXCEPT !.disc = TRUE, !.out = @ \cup joinRoom(p, bound)]

\* peerConnection.current.close(): what is pending on the chain never settles
closeSession(s) ==
    [s EXCEPT !.pc = [NoPC EXCEPT !.open = IF s.pc.alive THEN s.pc.open - 1
                                           ELSE s.pc.open],
              !.chain = <<>>, !.queue = <<>>,
              !.buffered = <<>>, !.epoch = @ + 1]

\* handleRemoteLeave without its last line
handleRemoteLeaveNoRestart(p, m) ==
    [closeSession(St(p)) EXCEPT !.ui.remoteUserName = "none",
                                !.ui.connectionState = "disconnected",
                                !.acted = TRUE]

handleRemoteLeave(p, m) ==
    LET s1 == [closeSession(St(p)) EXCEPT !.ui.remoteUserName = "none",
                                          !.ui.connectionState = "disconnected",
                                          !.acted = TRUE]
    IN  IF ~s1.disc /\ inRoom[p] THEN startDiscovery(p, s1) ELSE s1

handleMediaStatus(p, m) ==
    [St(p) EXCEPT !.media.remoteIsMicOn = IF m.kind = "audio" THEN m.flag ELSE @,
                  !.media.remoteIsCameraOn = IF m.kind = "video" THEN m.flag ELSE @,
                  !.acted = TRUE]

handleScreenShareStatus(p, m) ==
    [St(p) EXCEPT !.media.remoteIsScreenSharing = m.flag,
                  !.media.remoteIsCameraOn = IF m.flag THEN TRUE ELSE @,
                  !.acted = TRUE]

\* CollaborativeNotes: handleSync; the envelope's kind holds payload.content
handleSync(p, m) ==
    [St(p) EXCEPT !.ui.content = IF m.kind # @ THEN m.kind ELSE @,
                  !.acted = TRUE]

\* PeerSignalingService.emit(data.type, data): the listener of the envelope's type
\* useChat: the messages of others the page has not marked seen
unseenIds(msgs, p) ==
    {msgs[i].id : i \in {j \in 1..Len(msgs) :
                             msgs[j].senderId # p /\ msgs[j].status # "seen"}}

\* useChat: setMessages(prev => prev.map(... status: 'seen'))
markSeen(msgs, ids) ==
    [i \in 1..Len(msgs) |->
        IF msgs[i].id \in ids THEN [msgs[i] EXCEPT !.status = "seen"] ELSE msgs[i]]

\* sendChatStatus(roomId, 'seen', ids)
SendSeen(p, ids) ==
    {[m EXCEPT !.ids = ids] : m \in Send(p, "chat-status", NoDesc, "seen", FALSE)}

handleChat(p, m) ==
    [St(p) EXCEPT !.ui.isRemoteTyping = FALSE,
                  !.ui.messages =
                      Append(@, [id |-> CHOOSE i \in m.ids : TRUE,
                                 senderId |-> m.senderId,
                                 status |-> IF ui[p].isChatOpen THEN "seen"
                                            ELSE "delivered"]),
                  !.out = IF ui[p].isChatOpen THEN SendSeen(p, m.ids) ELSE {},
                  !.acted = TRUE]

handleChatStatus(p, m) ==
    [St(p) EXCEPT !.ui.messages = IF m.kind = "seen" THEN markSeen(@, m.ids) ELSE @,
                  !.acted = TRUE]

handleTyping(p, m) ==
    [St(p) EXCEPT !.ui.isRemoteTyping = m.flag, !.acted = TRUE]

Handle(p, m) ==
    CASE m.type = "join"         -> handleJoin(p, m)
      [] m.type = "offer"        -> handleOffer(p, m)
      [] m.type = "answer"       -> handleAnswer(p, m)
      [] m.type = "ice-candidate" -> handleIceCandidate(p, m)
      [] m.type = "leave"        -> handleRemoteLeave(p, m)
      [] m.type = "media-status" -> handleMediaStatus(p, m)
      [] m.type = "chat"         -> handleChat(p, m)
      [] m.type = "chat-status"  -> handleChatStatus(p, m)
      [] m.type = "typing"       -> handleTyping(p, m)
      [] m.type = "sync-notes"   -> handleSync(p, m)
      [] OTHER                   -> handleScreenShareStatus(p, m)

\* a `get` callback that emits whatever it is handed
getUnfiltered(p, m) == Handle(p, m)

\* the `get` callback of the signaling service: an envelope that carries the
\* page's own userId is dropped, any other is emitted to the handlers
get(p, m) == IF m.senderId = p THEN St(p) ELSE Handle(p, m)

\* room.onPeerLeave emits the departure without passing through `get`
Emit(p, m) == IF m.type = "leave" THEN Handle(p, m) ELSE get(p, m)

\* the handler suspended on the operation o resumes with its result r
Resume(p, o, r, s) ==
    CASE o.h = "none" -> s
      [] o.at = 71  -> DrainLoop(s, o.h, o.to)
      [] ~r.ok      -> s
      [] o.at = 384 -> [s EXCEPT !.chain = Append(@, Op("setLocal", 385, o.h, r.sdp,
                                                        NoCand, o.to))]
      [] o.at = 385 -> [s EXCEPT !.out = Send(p, "offer", r.sdp, "none", FALSE)]
      [] o.at \in {415, 418} -> processIceQueue(s, o.h, o.to)
      [] o.at = 423 -> [s EXCEPT !.chain = Append(@, Op("setLocal", 424, o.h, r.sdp,
                                                        NoCand, o.to))]
      [] o.at = 424 -> [s EXCEPT !.out = Send(p, "answer", r.sdp, "none", FALSE)]
      [] o.at = 439 -> processIceQueue(s, o.h, o.to)
      [] OTHER      -> s

\* Promise.all rejects with the rollback: nobody resumes on the setRemoteDescription
Abandon(ch) ==
    IF ch = <<>> THEN ch ELSE <<[Head(ch) EXCEPT !.h = "none"]>> \o Tail(ch)

(***************************************************************************)
(* Actions.                                                                *)
(***************************************************************************)
\* two pages hold an outstanding local offer each
Glare(c) ==
    \E p, q \in Peers :
        p # q /\ c[p].sig = "have-local-offer" /\ c[q].sig = "have-local-offer"

NoGlare == [seen |-> FALSE, heard |-> {}]

Apply(p, s, rest) ==
    /\ pc' = [pc EXCEPT ![p] = s.pc]
    /\ queue' = [queue EXCEPT ![p] = s.queue]
    /\ chain' = [chain EXCEPT ![p] = s.chain]
    /\ ui' = [ui EXCEPT ![p] = s.ui]
    /\ media' = [media EXCEPT ![p] = s.media]
    /\ disc' = [disc EXCEPT ![p] = s.disc]
    /\ epoch' = [epoch EXCEPT ![p] = s.epoch]
    /\ buffered' = [buffered EXCEPT ![p] = s.buffered]
    /\ net' = rest \cup s.out
    /\ glared' = [glared EXCEPT !.seen = @ \/ Glare(pc')]

\* the steps the ghost `last` tells apart
Noted == {"answer", "echo", "tick", "capture", "ended"}

Step(ev, p, ok) ==
    IF ev \in Noted THEN [ev |-> ev, p |-> p, ok |-> ok]
    ELSE [ev |-> "other", p |-> "none", ok |-> TRUE]

\* joinRoom of the hook: getUserMedia, signaling.joinRoom, startDiscovery
JoinRoom(p) ==
    /\ p \in members
    /\ ~inRoom[p]
    /\ inRoom' = [inRoom EXCEPT ![p] = TRUE]
    /\ media' = [media EXCEPT ![p].tracks = TRUE,
                              ![p].audioEnabled = TRUE, ![p].videoEnabled = TRUE]
    /\ disc' = [disc EXCEPT ![p] = TRUE]
    /\ net' = net \cup {Envelope("join", p, q, NoDesc, NoCand, "none", FALSE) :
                        q \in Recipients(p)}
    /\ last' = Step("joinRoom", p, TRUE)
    /\ UNCHANGED <<roleVars, envVars, budget, pc, queue, chain, made, ui, epoch,
                   buffered, glared>>

\* the announces of PeerSignalingService.joinRoom after the first: the burst
\* timers and the reply to onPeerJoin
Announce(p) ==
    /\ inRoom[p]
    /\ budget.joins[p] > 0
    /\ budget' = [budget EXCEPT !.joins[p] = @ - 1]
    /\ net' = net \cup Send(p, "join", NoDesc, "none", FALSE)
    /\ last' = Step("announce", p, TRUE)
    /\ UNCHANGED <<roleVars, envVars, inRoom, pc, queue, chain, made, disc, ui,
                   media, epoch, buffered, glared>>

\* the interval of startDiscovery
Heartbeat(p) ==
    /\ disc[p]
    /\ budget.joins[p] > 0
    /\ pc[p].ice \notin {"connected", "completed"}
    /\ budget' = [budget EXCEPT !.joins[p] = @ - 1]
    /\ net' = net \cup joinRoom(p, bound)
    /\ last' = Step("heartbeat", p, TRUE)
    /\ UNCHANGED <<roleVars, envVars, inRoom, pc, queue, chain, made, disc, ui,
                   media, epoch, buffered, glared>>

\* the relay hands an envelope to the page it is for
Receive(m, rest) ==
    /\ inRoom[m.to]
    /\ LET s == Emit(m.to, m)
       IN  /\ pc' = [pc EXCEPT ![m.to] = s.pc]
           /\ queue' = [queue EXCEPT ![m.to] = s.queue]
           /\ chain' = [chain EXCEPT ![m.to] = s.chain]
           /\ ui' = [ui EXCEPT ![m.to] = s.ui]
           /\ media' = [media EXCEPT ![m.to] = s.media]
           /\ disc' = [disc EXCEPT ![m.to] = s.disc]
           /\ epoch' = [epoch EXCEPT ![m.to] = s.epoch]
           /\ buffered' = [buffered EXCEPT ![m.to] = s.buffered]
           /\ net' = rest \cup s.out
           /\ glared' = IF glared.seen /\ m.type = "offer"
                        THEN [glared EXCEPT !.heard = @ \cup {m.to}] ELSE glared
           /\ last' = Step(m.type, m.to, s.acted)
    /\ UNCHANGED <<roleVars, envVars, inRoom, made>>

Deliver(m) ==
    /\ Receive(m, net \ {m})
    /\ UNCHANGED budget

\* at-least-once: the envelope stays in flight and will be handed over again
Duplicate(m) ==
    /\ budget.dup > 0
    /\ m.type # "leave"
    /\ budget' = [budget EXCEPT !.dup = @ - 1]
    /\ Receive(m, net)

\* the relay hands a page an envelope the page itself published
Echo(m) ==
    /\ budget.echo > 0
    /\ m.type # "leave"
    /\ inRoom[m.senderId]
    /\ budget' = [budget EXCEPT !.echo = @ - 1]
    /\ LET s == get(m.senderId, m)
       IN  /\ Apply(m.senderId, s, net)
           /\ last' = Step("echo", m.senderId, s.acted)
    /\ UNCHANGED <<roleVars, envVars, inRoom, made>>

\* the relay loses an envelope of the negotiation
Lose(m) ==
    /\ budget.loss > 0
    /\ m.type \in {"join", "offer", "answer"}
    /\ budget' = [budget EXCEPT !.loss = @ - 1]
    /\ net' = net \ {m}
    /\ last' = Step("lose", m.to, TRUE)
    /\ UNCHANGED <<roleVars, envVars, inRoom, pc, queue, chain, made, disc, ui,
                   media, epoch, buffered, glared>>

\* the Media Engine settles the operation at the head of the page's chain and
\* the handler waiting for it runs to its next await
Engine(p, implicit, accept) ==
    /\ chain[p] # <<>>
    /\ LET o == Head(chain[p])
           r == Run(p, o, implicit, accept)
           rest == IF o.op = "rollback" /\ ~r.ok
                   THEN Abandon(Tail(chain[p])) ELSE Tail(chain[p])
           s == Resume(p, o, r, [St(p) EXCEPT !.pc = r.pc, !.chain = rest])
       IN  /\ implicit \/ (o.op = "setRemote" /\ o.sdp.t = "offer"
                           /\ pc[p].sig = "have-local-offer")
           /\ accept \/ (o.op = "addIce" /\ budget.iceFail > 0)
           /\ Apply(p, s, net)
           /\ made' = IF o.op = "createOffer"
                      THEN [made EXCEPT ![p].offers = @ + 1] ELSE made
           /\ budget' = IF accept THEN budget ELSE [budget EXCEPT !.iceFail = @ - 1]
           /\ last' = Step(o.op, p, r.ok)
    /\ UNCHANGED <<roleVars, envVars, inRoom>>

\* pc.onicecandidate: the engine gathered a candidate
Gather(p) ==
    /\ pc[p].alive
    /\ localDescription(pc[p]) # NoDesc
    /\ budget.cands > 0
    /\ budget' = [budget EXCEPT !.cands = @ - 1]
    /\ made' = [made EXCEPT ![p].cands = @ + 1]
    /\ net' = net \cup
         IF "ice-candidate" \in carried.types /\ inRoom[p]
         THEN {Envelope("ice-candidate", p, q, NoDesc,
                        [by |-> p, k |-> made[p].cands + 1, ep |-> epoch[q]],
                        "none", FALSE) : q \in Recipients(p)}
         ELSE {}
    /\ last' = Step("gather", p, TRUE)
    /\ UNCHANGED <<roleVars, envVars, inRoom, pc, queue, chain, disc, ui,
                   media, epoch, buffered, glared>>

\* the connectivity states the engine may report next
IceNext(c) ==
    CASE c.ice = "new" ->
           IF localDescription(c) # NoDesc /\ remoteDescription(c) # NoDesc
           THEN {"checking"} ELSE {}
      [] c.ice = "checking"     -> {"connected", "failed"}
      [] c.ice = "connected"    -> {"disconnected"}
      [] c.ice = "disconnected" -> {"connected", "failed"}
      [] OTHER                  -> {}

\* a callback that leaves the interval of startDiscovery alone
keepDiscovery(d, st) == d

\* oniceconnectionstatechange: clearInterval(discoveryInterval.current) on 'connected'
stopDiscovery(d, st) == IF st = "connected" THEN FALSE ELSE d

\* a callback that does nothing about 'failed'
ignoreFailed(c) == c

\* oniceconnectionstatechange: pc.restartIce() on 'failed'
restartOnFailed(c) == IF c.ice = "failed" THEN [c EXCEPT !.iceRestart = TRUE] ELSE c

\* pc.oniceconnectionstatechange
IceState(p, st) ==
    /\ pc[p].alive
    /\ budget.ice[p] > 0
    /\ st \in IceNext(pc[p])
    /\ budget' = [budget EXCEPT !.ice[p] = @ - 1]
    /\ pc' = [pc EXCEPT ![p] = restartOnFailed([@ EXCEPT !.ice = st])]
    /\ ui' = [ui EXCEPT ![p].connectionState = st]
    /\ disc' = [disc EXCEPT ![p] = stopDiscovery(@, st)]
    /\ last' = Step("iceState", p, TRUE)
    /\ UNCHANGED <<roleVars, envVars, inRoom, queue, chain, net, made, media,
                   epoch, buffered, glared>>

\* leaveRoom of the hook: room.leave() ends the page's link to the relay, which
\* drops what it still held for the page and reports the departure to the others
LeaveRoom(p) ==
    /\ inRoom[p]
    /\ budget.leaves > 0
    /\ budget' = [budget EXCEPT !.leaves = @ - 1]
    /\ inRoom' = [inRoom EXCEPT ![p] = FALSE]
    /\ LET s == closeSession(St(p))
       IN  Apply(p, [s EXCEPT !.disc = FALSE,
                              !.ui.connectionState = "new",
                              !.ui.remoteUserName = "none",
                              !.ui.networkQuality = 4,
                              !.media.tracks = FALSE,
                              !.media.isScreenSharing = FALSE,
                              !.media.screenTrack = FALSE,
                              !.media.audioEnabled = TRUE,
                              !.media.videoEnabled = TRUE,
                              !.out = IF "leave" \in carried.types
                                      THEN {Envelope("leave", p, q, NoDesc, NoCand,
                                                     "none", FALSE) : q \in Recipients(p)}
                                      ELSE {}],
                 {m \in net : m.to # p})
    /\ last' = Step("leaveRoom", p, TRUE)
    /\ UNCHANGED <<roleVars, envVars, made>>

(***************************************************************************)
(* The media controls.  media[p].tracks: the local camera and microphone   *)
(* tracks exist; screenTrack: screenTrackRef.current is set; capture: a    *)
(* getDisplayMedia() promise is outstanding; captureEp (ghost): the epoch  *)
(* in which it was requested.                                              *)
(***************************************************************************)
Click(p) ==
    /\ inRoom[p]
    /\ budget.toggles > 0
    /\ budget' = [budget EXCEPT !.toggles = @ - 1]
    /\ last' = Step("click", p, TRUE)
    /\ UNCHANGED <<roleVars, envVars, inRoom, made>>

toggleMic(p) ==
    IF media[p].tracks
    THEN [St(p) EXCEPT !.media.audioEnabled = ~@,
                       !.out = Send(p, "media-status", NoDesc, "audio",
                                    ~media[p].audioEnabled)]
    ELSE St(p)

toggleCamera(p) ==
    IF media[p].tracks
    THEN [St(p) EXCEPT !.media.videoEnabled = ~@,
                       !.out = IF media[p].isScreenSharing THEN {}
                               ELSE Send(p, "media-status", NoDesc, "video",
                                         ~media[p].videoEnabled)]
    ELSE St(p)

\* videoSender.replaceTrack(track) on the page's connection, if it has one
replaceTrack(c, track) == IF c.alive THEN [c EXCEPT !.videoTrack = track] ELSE c

\* a stopScreenSharing that leaves the sender alone
keepTrack(c, track) == c

\* the sender's track after stopScreenSharing
restoreCamera(c, track) == replaceTrack(c, track)

\* a getDisplayMedia() whose refusal is not noticed
alwaysGranted(granted) == TRUE

\* getDisplayMedia() resolved, or rejected and caught
captured(granted) == granted

\* a sendScreenShareStatus that sends nothing
sendNothing(p, flag) == {}

\* signaling.sendScreenShareStatus(roomId, flag)
sendScreenShareStatus(p, flag) == Send(p, "screen-share-status", NoDesc, "screen", flag)

stopScreenSharing(p) ==
    IF ~media[p].screenTrack THEN St(p)
    ELSE [St(p) EXCEPT !.media.screenTrack = FALSE,
                       !.media.isScreenSharing = FALSE,
                       !.pc = IF media[p].tracks THEN restoreCamera(@, "camera") ELSE @,
                       !.out = sendScreenShareStatus(p, FALSE)
                               \cup IF media[p].tracks
                                    THEN Send(p, "media-status", NoDesc, "video",
                                              media[p].videoEnabled)
                                    ELSE {}]

\* toggleScreenShare up to its await of getDisplayMedia()
toggleScreenShare(p) ==
    IF media[p].isScreenSharing THEN stopScreenSharing(p)
    ELSE [St(p) EXCEPT !.media.capture = "pending",
                       !.media.captureEp = epoch[p]]

\* toggleScreenShare after its await: a rejection is caught; so is the
\* TypeError of new MediaStream([screenTrack, null]) when leaveRoom has
\* dropped the audio track
afterCapture(p, granted) ==
    LET s0 == [St(p) EXCEPT !.media.capture = "none"]
        s1 == [s0 EXCEPT !.media.screenTrack = TRUE,
                         !.pc = replaceTrack(@, "screen")]
    IN  IF ~captured(granted) THEN s0
        ELSE IF ~media[p].tracks THEN s1
        ELSE [s1 EXCEPT !.media.isScreenSharing = TRUE,
                        !.out = Send(p, "media-status", NoDesc, "video", TRUE)
                                \cup sendScreenShareStatus(p, TRUE)]

ToggleMic(p) == Click(p) /\ Apply(p, toggleMic(p), net)

ToggleCamera(p) == Click(p) /\ Apply(p, toggleCamera(p), net)

ToggleScreenShare(p) ==
    /\ media[p].capture = "none"
    /\ Click(p)
    /\ Apply(p, toggleScreenShare(p), net)

\* the getDisplayMedia() promise settles
DisplayMedia(p, granted) ==
    /\ media[p].capture = "pending"
    /\ Apply(p, afterCapture(p, granted), net)
    /\ last' = Step("capture", p, granted)
    /\ UNCHANGED <<roleVars, envVars, budget, inRoom, made>>

\* screenTrack.onended: the browser's own stop-sharing control
ScreenTrackEnded(p) ==
    /\ media[p].screenTrack
    /\ Apply(p, stopScreenSharing(p), net)
    /\ last' = Step("ended", p, TRUE)
    /\ UNCHANGED <<roleVars, envVars, budget, inRoom, made>>

(***************************************************************************)
(* The Quality Monitor.  A round-trip time is in milliseconds (the source  *)
(* compares seconds: 0.1, 0.3, 0.5).  ui[p].stats: a getStats() promise of *)
(* the monitoring loop is outstanding; statsEp (ghost): the epoch in which *)
(* it was requested.                                                       *)
(***************************************************************************)
\* maxBitrate undefined: the encoder is not capped
NoCap == 0

\* the round-trip times getStats() reports in the runs of the pages: one for
\* every score
SampledRtts == {0, 101, 301, 501}

\* the round-trip times put in: at, just below and just above every threshold
Rtts == {0, 99, 100, 101, 300, 301, 500, 501, 900}

Scores == 0..4

\* the chain of ifs taken from the largest threshold down
scoreReversed(rtt) ==
    LET s1 == IF rtt > 500 THEN 1 ELSE 4
        s2 == IF rtt > 300 THEN 2 ELSE s1
    IN  IF rtt > 100 THEN 3 ELSE s2

\* the monitoring loop: let score = 4; if (rtt > 0.1) ... if (rtt > 0.5) score = 1
score(rtt) ==
    LET s1 == IF rtt > 100 THEN 3 ELSE 4
        s2 == IF rtt > 300 THEN 2 ELSE s1
    IN  IF rtt > 500 THEN 1 ELSE s2

\* a table that caps the lowest score least
maxBitrateSwapped(quality) ==
    LET m3 == IF quality = 3 THEN 250000 ELSE NoCap
        m2 == IF quality = 2 THEN 500000 ELSE m3
        m1 == IF quality = 1 THEN 100000 ELSE m2
    IN  IF quality = 0 THEN 1500000 ELSE m1

\* updateBitrate: let maxBitrate = undefined; if (quality === 3) ...
maxBitrate(quality) ==
    LET m3 == IF quality = 3 THEN 1500000 ELSE NoCap
        m2 == IF quality = 2 THEN 500000 ELSE m3
        m1 == IF quality = 1 THEN 250000 ELSE m2
    IN  IF quality = 0 THEN 100000 ELSE m1

\* updateBitrate(pc, quality) on a connection with a video sender
updateBitrate(c, quality) == [c EXCEPT !.cap = maxBitrate(quality), !.caps = @ + 1]

\* one tick of statsInterval, to its await of getStats()
Tick(p) ==
    /\ inRoom[p]
    /\ budget.ticks > 0
    /\ ui[p].stats = "none"
    /\ budget' = [budget EXCEPT !.ticks = @ - 1]
    /\ ui' = [ui EXCEPT ![p] =
                 IF ~pc[p].alive \/ pc[p].ice # "connected"
                 THEN [@ EXCEPT !.networkQuality = 0]
                 ELSE [@ EXCEPT !.stats = "pending", !.statsEp = epoch[p]]]
    /\ last' = Step("tick", p, TRUE)
    /\ UNCHANGED <<roleVars, envVars, inRoom, pc, queue, chain, net, made, disc,
                   media, epoch, buffered, glared>>

\* getStats() settles and the tick runs on: a rejection is caught, and so is
\* the TypeError of updateBitrate(null, score) when the connection is gone
Stats(p, rtt, ok) ==
    /\ ui[p].stats = "pending"
    /\ ui' = [ui EXCEPT ![p].stats = "none",
                        ![p].networkQuality = IF ok THEN score(rtt) ELSE @]
    /\ pc' = [pc EXCEPT ![p] = IF ok /\ @.alive THEN updateBitrate(@, score(rtt))
                               ELSE @]
    /\ last' = Step("stats", p, ok)
    /\ UNCHANGED <<roleVars, envVars, budget, inRoom, queue, chain, net, made,
                   disc, media, epoch, buffered, glared>>

(***************************************************************************)
(* The chat of useChat.  A message id is the sender and a serial number    *)
(* (the source draws it with Math.random()).                               *)
(***************************************************************************)
Sent(p) == Len(SelectSeq(ui[p].messages, LAMBDA x : x.senderId = p))

\* the effect that marks the messages seen when the chat is open
seenEffect(p, s) ==
    LET ids == unseenIds(s.ui.messages, p)
    IN  IF s.ui.isChatOpen /\ ids # {}
        THEN [s EXCEPT !.ui.messages = markSeen(@, ids),
                       !.out = @ \cup SendSeen(p, ids)]
        ELSE s

SendMessage(p) ==
    /\ inRoom[p]
    /\ budget.chats > 0
    /\ budget' = [budget EXCEPT !.chats = @ - 1]
    /\ LET id == [by |-> p, k |-> Sent(p) + 1]
           s == [St(p) EXCEPT
                    !.ui.messages = Append(@, [id |-> id, senderId |-> p,
                                               status |-> "sent"]),
                    !.out = {[m EXCEPT !.ids = {id}] :
                                 m \in Send(p, "chat", NoDesc, "text", FALSE)}]
       IN  Apply(p, seenEffect(p, s), net)
    /\ last' = Step("sendMessage", p, TRUE)
    /\ UNCHANGED <<roleVars, envVars, inRoom, made>>

NotifyTyping(p) ==
    /\ inRoom[p]
    /\ budget.chats > 0
    /\ budget' = [budget EXCEPT !.chats = @ - 1]
    /\ net' = net \cup Send(p, "typing", NoDesc, "typing", TRUE)
    /\ last' = Step("notifyTyping", p, TRUE)
    /\ UNCHANGED <<roleVars, envVars, inRoom, pc, queue, chain, made, disc, ui,
                   media, epoch, buffered, glared>>

\* the timeout handleTyping sets: setIsRemoteTyping(false)
TypingTimeout(p) ==
    /\ ui[p].isRemoteTyping
    /\ ui' = [ui EXCEPT ![p].isRemoteTyping = FALSE]
    /\ last' = Step("typingTimeout", p, TRUE)
    /\ UNCHANGED <<roleVars, envVars, budget, inRoom, pc, queue, chain, net, made,
                   disc, media, epoch, buffered, glared>>

\* the chat panel is opened or closed
ToggleChat(p) ==
    /\ Click(p)
    /\ Apply(p, seenEffect(p, [St(p) EXCEPT !.ui.isChatOpen = ~@]), net)

\* signaling.sendNoteUpdate(roomId, content)
sendNoteUpdate(p, content) == Send(p, "sync-notes", NoDesc, content, FALSE)

\* what the textarea of the notes panel can hold after a key stroke
Texts == {"x", "y"}

\* CollaborativeNotes: handleChange, with both participants in the room
EditNote(p, text) ==
    /\ \A q \in members : inRoom[q]
    /\ text # ui[p].content
    /\ budget.edits > 0
    /\ budget' = [budget EXCEPT !.edits = @ - 1]
    /\ Apply(p, [St(p) EXCEPT !.ui.content = text,
                              !.out = sendNoteUpdate(p, text)], net)
    /\ last' = Step("handleChange", p, TRUE)
    /\ UNCHANGED <<roleVars, envVars, inRoom, made>>

(***************************************************************************)
(* Initial states and specifications.                                      *)
(***************************************************************************)
NegotiationTypes == {"join", "offer", "answer", "ice-candidate", "leave"}

Budget(j, c, d, l, i, f) ==
    [joins |-> [p \in Peers |-> j], cands |-> c, dup |-> d, leaves |-> l,
     ice |-> [p \in Peers |-> i], iceFail |-> f]

InitPages ==
    /\ inRoom = [p \in Peers |-> FALSE]
    /\ pc = [p \in Peers |-> NoPC]
    /\ queue = [p \in Peers |-> <<>>]
    /\ chain = [p \in Peers |-> <<>>]
    /\ net = {}
    /\ made = [p \in Peers |-> [offers |-> 0, cands |-> 0]]
    /\ disc = [p \in Peers |-> FALSE]
    /\ ui = [p \in Peers |-> NoUi]
    /\ media = [p \in Peers |-> NoMedia]
    /\ epoch = [p \in Peers |-> 0]
    /\ buffered = [p \in Peers |-> <<>>]
    /\ glared = NoGlare
    /\ last = Step("init", "none", TRUE)

\* the Quality Monitor's functions with nothing put in
NoMonitor == [in |-> <<>>, out |-> <<>>, done |-> {}]

InitRole ==
    /\ idA = <<>>
    /\ idB = <<>>
    /\ roleA = "Unassigned"
    /\ roleB = "Unassigned"
    /\ monitor = NoMonitor

\* two pages, alice and bob, and a relay that delivers to both
InitTwo(b) ==
    /\ InitRole
    /\ InitPages
    /\ members = {"alice", "bob"}
    /\ carried = [types |-> NegotiationTypes, to |-> {"alice", "bob"}]
    /\ budget = b

Joins == \E p \in Peers : JoinRoom(p)
Announces == \E p \in Peers : Announce(p)
Heartbeats == \E p \in Peers : Heartbeat(p)
Deliveries == \E m \in net : Deliver(m)
Duplicates == \E m \in net : Duplicate(m)
Engines == \E p \in Peers : \E implicit, accept \in BOOLEAN : Engine(p, implicit, accept)
Gathers == \E p \in Peers : Gather(p)
IceStates ==
    \E p \in Peers : \E st \in {"checking", "connected", "disconnected", "failed"} :
        IceState(p, st)
Leaves == \E p \in Peers : LeaveRoom(p)
Losses == \E m \in net : Lose(m)
Echoes == \E m \in net : Echo(m)
Messages == \E p \in Peers : SendMessage(p)
Typings == \E p \in Peers : NotifyTyping(p)
TypingTimeouts == \E p \in Peers : TypingTimeout(p)
ChatToggles == \E p \in Peers : ToggleChat(p)
Ticks == \E p \in Peers : Tick(p)
StatsResults ==
    \E p \in Peers : \E rtt \in SampledRtts : \E ok \in BOOLEAN : Stats(p, rtt, ok)
Mics == \E p \in Peers : ToggleMic(p)
Cameras == \E p \in Peers : ToggleCamera(p)
ScreenShares == \E p \in Peers : ToggleScreenShare(p)
Captures == \E p \in Peers : \E granted \in BOOLEAN : DisplayMedia(p, granted)
TrackEnds == \E p \in Peers : ScreenTrackEnded(p)
Edits == \E p \in Peers : \E text \in Texts : EditNote(p, text)

(***************************************************************************)
(* Spec: the offer/answer negotiation of alice and bob, with repeated      *)
(* announces, duplicated envelopes and the engine's connectivity reports.  *)
(***************************************************************************)
Init == InitTwo(Budget(MaxJoins, 0, MaxDup, 0, MaxIce, 0))

Next ==
    \/ Joins
    \/ Announces
    \/ Heartbeats
    \/ Deliveries
    \/ Duplicates
    \/ Engines
    \/ IceStates

Spec == Init /\ [][Next]_vars

(***************************************************************************)
(* SpecReliable: as Spec, with a relay that delivers every envelope once.  *)
(***************************************************************************)
InitReliable == InitTwo(Budget(MaxJoins, 0, 0, 0, MaxIce, 0))

NextReliable ==
    \/ Joins
    \/ Announces
    \/ Heartbeats
    \/ Deliveries
    \/ Engines
    \/ IceStates

SpecReliable == InitReliable /\ [][NextReliable]_vars

(***************************************************************************)
(* SpecLossy: as SpecReliable, with a relay that loses envelopes before it *)
(* delivers every one.                                                     *)
(***************************************************************************)
InitLossy == InitTwo(Budget(MaxJoins, 0, 0, 0, MaxIce, 0) @@ [loss |-> MaxLoss])

NextLossy ==
    \/ Joins
    \/ Announces
    \/ Heartbeats
    \/ Deliveries
    \/ Losses
    \/ Engines
    \/ IceStates

SpecLossy == InitLossy /\ [][NextLossy]_vars

(***************************************************************************)
(* SpecIce: the same two pages with candidates: gathered, buffered,        *)
(* drained, refused, duplicated.                                           *)
(***************************************************************************)
InitIce == InitTwo(Budget(0, MaxCands, MaxDup, 0, 0, MaxIceFail))

NextIce ==
    \/ Joins
    \/ Deliveries
    \/ Duplicates
    \/ Engines
    \/ Gathers

SpecIce == InitIce /\ [][NextIce]_vars

(***************************************************************************)
(* SpecEpoch: the same two pages with candidates and departures: a page    *)
(* leaves, the other is told, the page joins again.                        *)
(***************************************************************************)
InitEpoch == InitTwo(Budget(0, MaxCands, 0, MaxLeaves, 0, 0))

NextEpoch ==
    \/ Joins
    \/ Deliveries
    \/ Engines
    \/ Gathers
    \/ Leaves

SpecEpoch == InitEpoch /\ [][NextEpoch]_vars

(***************************************************************************)
(* SpecDeparture: alice and bob with candidates, connectivity reports and  *)
(* departures, without heartbeats.                                         *)
(***************************************************************************)
InitDeparture == InitTwo(Budget(0, MaxDepCands, 0, MaxLeaves, MaxIce, 0))

NextDeparture ==
    \/ Joins
    \/ Deliveries
    \/ Engines
    \/ Gathers
    \/ IceStates
    \/ Leaves

SpecDeparture == InitDeparture /\ [][NextDeparture]_vars

(***************************************************************************)
(* SpecLoop: alice and bob with heartbeats, connectivity reports and       *)
(* departures, without candidates.                                         *)
(***************************************************************************)
InitLoop == InitTwo(Budget(MaxJoins, 0, 0, MaxLeaves, MaxIce, 0))

NextLoop ==
    \/ Joins
    \/ Heartbeats
    \/ Deliveries
    \/ Engines
    \/ IceStates
    \/ Leaves

SpecLoop == InitLoop /\ [][NextLoop]_vars

(***************************************************************************)
(* SpecMedia: alice and bob with the microphone and screen share controls  *)
(* and departures; the relay carries the status envelopes too.  The camera *)
(* control and the end of a captured source are run in SpecShare.          *)
(***************************************************************************)
StatusTypes == {"media-status", "screen-share-status"}

InitMedia ==
    /\ InitRole
    /\ InitPages
    /\ members = {"alice", "bob"}
    /\ carried = [types |-> NegotiationTypes \cup StatusTypes, to |-> {"alice", "bob"}]
    /\ budget = Budget(0, 0, 0, MaxLeaves, 0, 0) @@ [toggles |-> MaxToggles]

NextMedia ==
    \/ Joins
    \/ Deliveries
    \/ Engines
    \/ Mics
    \/ ScreenShares
    \/ Captures
    \/ Leaves

SpecMedia == InitMedia /\ [][NextMedia]_vars

(***************************************************************************)
(* SpecEcho: alice and bob with the chat; the relay carries every type of  *)
(* envelope and hands some back to their sender.                           *)
(***************************************************************************)
ChatTypes == {"chat", "chat-status", "typing"}

InitEcho ==
    /\ InitRole
    /\ InitPages
    /\ members = {"alice", "bob"}
    /\ carried = [types |-> NegotiationTypes \cup StatusTypes \cup ChatTypes,
                  to |-> {"alice", "bob"}]
    /\ budget = Budget(0, 0, 0, 0, 0, 0)
                  @@ [toggles |-> MaxToggles, chats |-> MaxChats, echo |-> MaxEcho]

NextEcho ==
    \/ Joins
    \/ Deliveries
    \/ Echoes
    \/ Engines
    \/ Messages
    \/ Typings
    \/ TypingTimeouts
    \/ ChatToggles

SpecEcho == InitEcho /\ [][NextEcho]_vars

(***************************************************************************)
(* SpecMonitor: alice and bob with connectivity reports and the Quality    *)
(* Monitor.                                                                *)
(***************************************************************************)
InitMonitored ==
    InitTwo(Budget(0, 0, 0, 0, MaxMonitorIce, 0) @@ [ticks |-> MaxTicks])

NextMonitor ==
    \/ Joins
    \/ Deliveries
    \/ Engines
    \/ IceStates
    \/ Ticks
    \/ StatsResults

SpecMonitor == InitMonitored /\ [][NextMonitor]_vars

(***************************************************************************)
(* SpecShare: alice and bob with the media controls, no departures; the    *)
(* relay carries the status envelopes too.                                 *)
(***************************************************************************)
InitShare ==
    /\ InitRole
    /\ InitPages
    /\ members = {"alice", "bob"}
    /\ carried = [types |-> NegotiationTypes \cup StatusTypes, to |-> {"alice", "bob"}]
    /\ budget = Budget(0, 0, 0, 0, 0, 0) @@ [toggles |-> MaxShareToggles]

NextShare ==
    \/ Joins
    \/ Deliveries
    \/ Engines
    \/ Mics
    \/ Cameras
    \/ ScreenShares
    \/ Captures
    \/ TrackEnds

SpecShare == InitShare /\ [][NextShare]_vars

\* ---- the shared notes
NoteTypes == {"sync-notes"}

InitNotes ==
    /\ InitRole
    /\ InitPages
    /\ members = {"alice", "bob"}
    /\ carried = [types |-> NegotiationTypes \cup NoteTypes, to |-> {"alice", "bob"}]
    /\ budget = Budget(0, 0, 0, 0, 0, 0) @@ [edits |-> MaxEdits]

NextNotes ==
    \/ Joins
    \/ Deliveries
    \/ Engines
    \/ Edits

SpecNotes == InitNotes /\ [][NextNotes]_vars

\* ---- chat over a relay that repeats envelopes
InitChat ==
    /\ InitRole
    /\ InitPages
    /\ members = {"alice", "bob"}
    /\ carried = [types |-> NegotiationTypes \cup StatusTypes \cup ChatTypes,
                  to |-> {"alice", "bob"}]
    /\ budget = Budget(0, 0, MaxDup, 0, 0, 0)
                  @@ [toggles |-> MaxToggles, chats |-> MaxChats]

NextChat ==
    \/ Joins
    \/ Deliveries
    \/ Duplicates
    \/ Engines
    \/ Messages
    \/ ChatToggles

SpecChat == InitChat /\ [][NextChat]_vars

\* ---- the drain of the Candidate Buffer, every envelope delivered once
InitDrain == InitTwo(Budget(0, MaxDrainCands, 0, 0, 0, 0))

NextDrain ==
    \/ Joins
    \/ Deliveries
    \/ Engines
    \/ Gathers

SpecDrain == InitDrain /\ [][NextDrain]_vars

\* ---- the Discovery Loop over each definition of the signaling service
InitHeartbeat ==
    /\ InitRole
    /\ InitPages
    /\ members = {"alice", "bob"}
    /\ \E def \in Definitions :
           carried = [types |-> NegotiationTypes, to |-> {"alice", "bob"}, def |-> def]
    /\ budget = Budget(MaxJoins, 0, 0, 0, 0, 0)

NextHeartbeat ==
    \/ Joins
    \/ Heartbeats
    \/ Deliveries
    \/ Engines

SpecHeartbeat == InitHeartbeat /\ [][NextHeartbeat]_vars

(***************************************************************************)
(* SpecGlare: a third page, carol, is in the room (nothing limits a room   *)
(* to two pages).  The relay of these runs loses what is addressed to      *)
(* alice, whose announce is heard by bob and carol.                        *)
(***************************************************************************)
InitGlare ==
    /\ InitRole
    /\ InitPages
    /\ members = Peers
    /\ carried = [types |-> NegotiationTypes, to |-> {"bob", "carol"}]
    /\ budget = Budget(0, 0, MaxDup, 0, 0, 0)

NextGlare ==
    \/ Joins
    \/ Deliveries
    \/ Duplicates
    \/ Engines

SpecGlare == InitGlare /\ [][NextGlare]_vars

(***************************************************************************)
(* SpecRole: the Role Arbiter alone.  Two pages with identifiers idA and   *)
(* idB hear each other's announce, in either order, any number of times.   *)
(***************************************************************************)
pageVars == <<members, carried, budget, inRoom, pc, queue, chain, net, made, disc, ui,
              media, epoch, buffered, glared, last>>

InitArbiter ==
    /\ idA \in Ids
    /\ idB \in Ids
    /\ roleA = "Unassigned"
    /\ roleB = "Unassigned"
    /\ monitor = NoMonitor
    /\ InitPages
    /\ members = {}
    /\ carried = [types |-> {}, to |-> {}]
    /\ budget = Budget(0, 0, 0, 0, 0, 0)

\* the page with identifier idA handles the announce of the page with idB
DecideA ==
    /\ roleA' = decideRole(idA, idB)
    /\ UNCHANGED <<idA, idB, roleB, monitor, pageVars>>

DecideB ==
    /\ roleB' = decideRole(idB, idA)
    /\ UNCHANGED <<idA, idB, roleA, monitor, pageVars>>

NextRole == DecideA \/ DecideB

SpecRole == InitArbiter /\ [][NextRole]_vars

(***************************************************************************)
(* The Quality Monitor's two functions on their own.                       *)
(***************************************************************************)
Samples == 1..MaxSamples

InitMonitor(inputs) ==
    /\ idA = <<>>
    /\ idB = <<>>
    /\ roleA = "Unassigned"
    /\ roleB = "Unassigned"
    /\ monitor \in [in : [Samples -> inputs], out : {[i \in Samples |-> 0]}, done : {{}}]
    /\ InitPages
    /\ members = {}
    /\ carried = [types |-> {}, to |-> {}]
    /\ budget = Budget(0, 0, 0, 0, 0, 0)

\* the monitoring loop computes the score of the i-th round-trip time
Score(i) ==
    /\ monitor' = [monitor EXCEPT !.out[i] = score(monitor.in[i]),
                                  !.done = @ \cup {i}]
    /\ UNCHANGED <<idA, idB, roleA, roleB, pageVars>>

NextScore == \E i \in Samples : Score(i)

SpecScore == InitMonitor(Rtts) /\ [][NextScore]_vars

\* updateBitrate computes the cap of the i-th score
Cap(i) ==
    /\ monitor' = [monitor EXCEPT !.out[i] = maxBitrate(monitor.in[i]),
                                  !.done = @ \cup {i}]
    /\ UNCHANGED <<idA, idB, roleA, roleB, pageVars>>

NextBitrate == \E i \in Samples : Cap(i)

SpecBitrate == InitMonitor(Scores) /\ [][NextBitrate]_vars

(***************************************************************************)
(* Properties.                                                             *)
(***************************************************************************)
\* a is the larger identifier: at the first position where the two differ a
\* has the larger code unit, or b has ended there
Larger(a, b) ==
    \E i \in 1..Len(a) :
        /\ \A j \in 1..(i - 1) : j <= Len(b) /\ a[j] = b[j]
        /\ i > Len(b) \/ a[i] > b[i]

\* nothing is in flight and no operation is pending on any connection
Quiescent == net = {} /\ \A p \in Peers : chain[p] = <<>>

\* the operation most recently put on the page's chain
Newest(ch) == ch[Len(ch)]

\* C1: whatever the order and number of the announces handled, a page's
\* decision is Caller exactly when its own identifier is the larger one, so
\* for two distinct identifiers exactly one of the two pages is Caller and
\* the other Listener, and a decision repeated gives the same role.
C1_RolesComplementary ==
    /\ roleA # "Unassigned" =>
           roleA = IF Larger(idA, idB) THEN "Caller" ELSE "Listener"
    /\ roleB # "Unassigned" =>
           roleB = IF Larger(idB, idA) THEN "Caller" ELSE "Listener"
    /\ (idA # idB /\ roleA # "Unassigned" /\ roleB # "Unassigned") =>
           (roleA = "Caller") # (roleB = "Caller")

\* both pages have decided about two distinct identifiers that start alike
C1_Witness ==
    /\ idA # <<>> /\ idB # <<>>
    /\ idA # idB
    /\ Head(idA) = Head(idB)
    /\ roleA = "Listener"
    /\ roleB = "Caller"

\* C2: when bob and carol have been in glare and each has handled the other's
\* offer since, then, once every envelope has been handled and every
\* operation has settled, both are stable on one agreed description: the
\* offer of carol, the Caller of the two, answered by bob.
C2_GlareConverges ==
    (glared.seen /\ {"bob", "carol"} \subseteq glared.heard /\ Quiescent) =>
        /\ pc["bob"].sig = "stable"
        /\ pc["carol"].sig = "stable"
        /\ pc["carol"].curLocal.t = "offer"
        /\ pc["bob"].curRemote = pc["carol"].curLocal
        /\ pc["carol"].curRemote = pc["bob"].curLocal

\* C3: a page that handles an offer while it has its own offer outstanding
\* queues the rollback only if it is not the Caller of the two.
C3_CallerIgnoresOffer ==
    [][\A p \in Peers :
          (pc[p].sig = "have-local-offer" /\ Len(chain'[p]) = Len(chain[p]) + 2)
              => ~isCaller(userId(p), userId(Newest(chain'[p]).to))]_vars

\* the calls of pc.createOffer() pending on a chain
CreateOffers(ch) == Cardinality({i \in 1..Len(ch) : ch[i].op = "createOffer"})

\* C4: no step of a page that has an offer outstanding asks the engine for
\* another offer.
C4_NoSecondOffer ==
    [][\A p \in Peers :
          pc[p].sig = "have-local-offer"
              => CreateOffers(chain'[p]) <= CreateOffers(chain[p])]_vars

\* the candidates the engine was handed from the buffer, in the order handed
Handed(p) ==
    LET h == SelectSeq(pc[p].handed, LAMBDA e : e.buf)
    IN  [i \in 1..Len(h) |-> h[i].cand]

\* the candidates taken from the buffer whose addIceCandidate is pending
Draining(p) ==
    LET d == SelectSeq(chain[p], LAMBDA o : o.at = 71)
    IN  [i \in 1..Len(d) |-> d[i].cand]

\* C5: the candidates put in the buffer are, in their order of arrival, those
\* already handed to the engine, then those whose hand-over is pending, then
\* those still buffered: none is lost, repeated or overtaken; and the drain
\* is under way from the step that sets the remote description for as long
\* as the buffer holds a candidate.
C5_BufferedInOrderOnce ==
    \A p \in Peers :
        /\ buffered[p] = Handed(p) \o Draining(p) \o queue[p]
        /\ (pc[p].alive /\ remoteDescription(pc[p]) # NoDesc /\ queue[p] # <<>>)
               => Draining(p) # <<>>

\* two different buffered candidates have both been handed over, and the
\* engine has refused one of them
C5_Witness ==
    \E p \in Peers :
        /\ Len(buffered[p]) >= 2
        /\ buffered[p][1] # buffered[p][2]
        /\ Handed(p) = buffered[p]
        /\ Len(pc[p].handed) = Len(buffered[p])
        /\ \A q \in Peers \ {p} : pc[q].handed = <<>>
        /\ budget.iceFail = 0

\* C6: a page whose buffer holds a candidate has no remote description.
C6_BufferOnlyWithoutRemote ==
    \A p \in Peers :
        queue[p] # <<>> => ~pc[p].alive \/ remoteDescription(pc[p]) = NoDesc

\* C7: no candidate sent before the page closed a Session is in the page's
\* buffer, or has been handed to the page's connection, after the close.
C7_NoStaleCandidate ==
    \A p \in Peers :
        /\ \A i \in 1..Len(queue[p]) : queue[p][i].ep >= epoch[p]
        /\ \A i \in 1..Len(pc[p].handed) : pc[p].handed[i].cand.ep >= epoch[p]

\* C8: the second copy of an answer, handled while the first was still being
\* applied, changes neither the signaling state nor the remote description
\* when its turn on the chain comes.
C8_SecondAnswerDiscarded ==
    [][\A p \in Peers :
          (chain[p] # <<>> /\ Head(chain[p]).copy)
              => /\ pc'[p].sig = pc[p].sig
                 /\ remoteDescription(pc'[p]) = remoteDescription(pc[p])]_vars

\* C9: no connection holds a pending local offer and a pending remote offer
\* together, and when the setRemoteDescription of handleOffer's glare branch
\* is next on the chain no local offer is outstanding any more.
C9_NoTwoOffers ==
    \A p \in Peers :
        /\ ~(pc[p].pendLocal.t = "offer" /\ pc[p].pendRemote.t = "offer")
        /\ (chain[p] # <<>> /\ Head(chain[p]).at = 415)
               => (pc[p].sig # "have-local-offer" /\ pc[p].pendLocal = NoDesc)

\* a page that had made an offer has rolled it back for the offer it is
\* about to apply
C9_Witness ==
    \E p \in Peers :
        /\ chain[p] # <<>>
        /\ Head(chain[p]).at = 415
        /\ Head(chain[p]).h = "handleOffer"
        /\ made[p].offers > 0
        /\ pc[p].curLocal = NoDesc
        /\ pc[p].curRemote = NoDesc

\* alice and bob hold each other's description, both stable
Negotiated ==
    /\ pc["alice"].sig = "stable"
    /\ pc["bob"].sig = "stable"
    /\ pc["alice"].curRemote.by = "bob"
    /\ pc["bob"].curRemote.by = "alice"

\* C10: with every envelope delivered once, when nothing is left in flight or
\* pending and both engines report connectivity (which ends the heartbeat and
\* the offers), alice and bob are stable with each other's description and
\* both show Connected.
C10_BothStable ==
    (Quiescent /\ pc["alice"].ice = "connected" /\ pc["bob"].ice = "connected") =>
        /\ Negotiated
        /\ ui["alice"].connectionState = "connected"
        /\ ui["bob"].connectionState = "connected"

\* C11: when the relay has lost what it loses and delivered the rest, nothing
\* is pending, and both engines report connectivity (so that no heartbeat and
\* no offer follows), alice and bob are stable with a remote description.
C11_RecoversFromLoss ==
    (budget.loss = 0 /\ Quiescent
     /\ pc["alice"].ice = "connected" /\ pc["bob"].ice = "connected") =>
        \A p \in {"alice", "bob"} :
            pc[p].sig = "stable" /\ remoteDescription(pc[p]) # NoDesc

\* C12: the step in which a page that is in the room handles a departure
\* leaves it without connection, with an empty buffer and with the interval
\* of the Discovery Loop set, whether or not it was set before.
C12_DepartureRestartsDiscovery ==
    [][\A p \in Peers :
          (inRoom[p] /\ inRoom'[p] /\ epoch'[p] = epoch[p] + 1)
              => (~pc'[p].alive /\ queue'[p] = <<>> /\ disc'[p])]_vars

\* a page whose engine had reported twice has handled a departure
C12_Witness ==
    \E p \in Peers :
        /\ inRoom[p]
        /\ epoch[p] = 1
        /\ ~pc[p].alive
        /\ disc[p]
        /\ budget.ice[p] = 0
        /\ ui[p].connectionState = "disconnected"

\* C14: in every state in which a connection reports connected the interval
\* of the Discovery Loop is cleared, a cleared interval is set again only by
\* a step that closes the Session or joins the room, and no other step of a
\* page whose interval is cleared publishes a join.
C14_DiscoveryStopsOnConnected ==
    [][\A p \in Peers :
          /\ (pc'[p].alive /\ pc'[p].ice = "connected") => ~disc'[p]
          /\ (~disc[p] /\ disc'[p]) => (epoch'[p] # epoch[p] \/ ~inRoom[p])
          /\ (\E m \in net' \ net : m.type = "join" /\ m.senderId = p)
                 => (disc[p] \/ ~inRoom[p] \/ epoch'[p] # epoch[p])]_vars

\* the Session a page made after a departure is connected, its loop stopped
C14_Witness ==
    \E p \in Peers :
        /\ epoch[p] = 1
        /\ pc[p].alive
        /\ pc[p].ice = "connected"
        /\ ~disc[p]

\* C15: the step in which a connection reports failed requests an ICE restart
\* on that connection, which stays the page's connection with the same
\* descriptions; the step creates no offer, queues no operation and publishes
\* nothing.
C15_FailedRestartsIce ==
    [][\A p \in Peers :
          (pc[p].alive /\ pc[p].ice # "failed" /\ pc'[p].ice = "failed")
              => /\ pc'[p] = [pc[p] EXCEPT !.ice = "failed", !.iceRestart = TRUE]
                 /\ made' = made
                 /\ chain' = chain
                 /\ net' = net
                 /\ epoch' = epoch]_vars

\* a connection that reported failed, with the restart requested
C15_Witness ==
    \E p \in Peers :
        pc[p].alive /\ pc[p].ice = "failed" /\ pc[p].iceRestart

\* C16: the connectionState a page shows for its connection is the
\* iceConnectionState of that connection.
C16_UiMirrorsEngine ==
    \A p \in Peers : pc[p].alive => ui[p].connectionState = pc[p].ice

\* C13: the step in which a page that holds a negotiated connection handles
\* the departure of its peer leaves the remote flags it shows at their
\* defaults: microphone on, camera on, no screen share.
C13_RemoteMediaReset ==
    [][\A p \in Peers :
          (/\ inRoom[p] /\ inRoom'[p] /\ epoch'[p] = epoch[p] + 1
           /\ pc[p].alive /\ pc[p].sig = "stable" /\ remoteDescription(pc[p]) # NoDesc)
              => /\ media'[p].remoteIsMicOn
                 /\ media'[p].remoteIsCameraOn
                 /\ ~media'[p].remoteIsScreenSharing]_vars

\* C17: when getDisplayMedia() settles for a toggleScreenShare that was
\* suspended in an earlier epoch (the peer departed or the room was left
\* meanwhile), the continuation changes neither the connection nor the
\* screen-sharing state the page shows, and publishes nothing.
C17_AbandonedCaptureDiscarded ==
    [][\A p \in Peers :
          (/\ media[p].capture = "pending"
           /\ media'[p].capture = "none"
           /\ media[p].captureEp # epoch[p])
              => /\ media'[p].isScreenSharing = media[p].isScreenSharing
                 /\ pc'[p] = pc[p]
                 /\ net' = net]_vars

\* C18: when only one offer was ever made, so that every offer a page handles
\* is a copy of it, and nothing is left in flight or pending, a page that holds
\* the offer as remote description is stable.
C18_DuplicateOfferStable ==
    (Quiescent /\ \A q \in Peers : made[q].offers <= 1) =>
        \A p \in Peers :
            (pc[p].alive /\ remoteDescription(pc[p]).t = "offer")
                => pc[p].sig = "stable"

\* C19: a page that is stable with a remote description applied, and has no
\* operation pending, calls createOffer in no step, whatever its connectivity.
C19_JoinIdempotent ==
    [][\A p \in Peers :
          (/\ pc[p].alive /\ pc[p].sig = "stable"
           /\ pc[p].curRemote # NoDesc /\ chain[p] = <<>>)
              => CreateOffers(chain'[p]) = 0]_vars

\* C20: the step in which the relay hands a page an envelope that carries the
\* page's own userId, of whatever type, changes no connection, buffer,
\* discovery, media, chat or shown state of any page and publishes nothing.
C20_OwnEnvelopesDiscarded ==
    [][last'.ev = "echo" =>
          /\ pc' = pc /\ queue' = queue /\ chain' = chain
          /\ disc' = disc /\ epoch' = epoch
          /\ media' = media /\ ui' = ui
          /\ net' = net
          /\ ~last'.ok]_vars

\* a page with an offer outstanding was handed an envelope of its own
C20_Witness ==
    /\ last.ev = "echo"
    /\ pc[last.p].alive
    /\ pc[last.p].sig = "have-local-offer"

\* C21: a page never has more than one connection open, and it has one open
\* exactly when peerConnection.current is set: createPeerConnection on a page
\* that has a connection opens no second one.
C21_OneSession ==
    \A p \in Peers :
        /\ pc[p].open <= 1
        /\ pc[p].alive <=> pc[p].open = 1

\* a page whose connection was asked for by two announces
C21_Witness ==
    \E p \in Peers : pc[p].alive /\ CreateOffers(chain[p]) = 2

\* C23: the score computed for a round-trip time is 4 less one for every
\* threshold (0.1 s, 0.3 s, 0.5 s) the time is above, and of two times the
\* smaller never gets the smaller score.
C23_ScoreSteps ==
    \A i \in monitor.done :
        /\ monitor.out[i] =
               4 - Cardinality({t \in {100, 300, 500} : monitor.in[i] > t})
        /\ \A j \in monitor.done :
               monitor.in[i] < monitor.in[j] => monitor.out[i] >= monitor.out[j]

\* the scores of two times on either side of the last threshold are computed
C23_Witness ==
    \E i, j \in monitor.done :
        monitor.in[i] = 500 /\ monitor.in[j] = 501
        /\ monitor.out[i] = 2 /\ monitor.out[j] = 1

\* a cap is not greater than another: no cap at all is the largest
CapLeq(a, b) == b = NoCap \/ (a # NoCap /\ a <= b)

\* C24: of two scores in 0..4 the smaller is never given the greater cap, and
\* only the score 4 is left without a cap.
C24_CapMonotone ==
    \A i \in monitor.done :
        /\ monitor.out[i] = NoCap <=> monitor.in[i] = 4
        /\ \A j \in monitor.done :
               monitor.in[i] <= monitor.in[j]
                   => CapLeq(monitor.out[i], monitor.out[j])

\* the caps of the lowest and of an intermediate score are computed
C24_Witness ==
    \E i, j \in monitor.done :
        monitor.in[i] = 0 /\ monitor.in[j] = 3
        /\ monitor.out[i] = 100000 /\ monitor.out[j] = 1500000

\* C22: a tick requests statistics only of a connection that reports
\* connected and sets the score to 0 otherwise, and setParameters is called
\* only on a connection that reports connected and is the one sampled.
C22_MonitorOnlyConnected ==
    [][\A p \in Peers :
          /\ (ui[p].stats = "none" /\ ui'[p].stats = "pending")
                 => (pc[p].alive /\ pc[p].ice = "connected")
          /\ (last'.ev = "tick" /\ last'.p = p /\ ui'[p].stats = "none")
                 => (ui'[p].networkQuality = 0 /\ pc'[p] = pc[p])
          /\ pc'[p].caps > pc[p].caps
                 => /\ pc[p].ice = "connected"
                    /\ ui[p].statsEp = epoch[p]]_vars

\* the negotiation state of a connection: signaling state and descriptions
Negotiation(c) == <<c.sig, c.pendLocal, c.curLocal, c.pendRemote, c.curRemote>>

\* the page starts, or stops, sharing its screen in this step and stays in the room
StartsSharing(p) ==
    inRoom[p] /\ inRoom'[p] /\ ~media[p].isScreenSharing /\ media'[p].isScreenSharing

StopsSharing(p) ==
    inRoom[p] /\ inRoom'[p] /\ media[p].isScreenSharing /\ ~media'[p].isScreenSharing

\* C25: on a page that has a connection, the step that starts the screen
\* share puts the screen track on the video sender and the step that stops
\* it puts the camera track back; neither changes the microphone flag, the
\* signaling state, the descriptions or the operations pending.
C25_ShareTwiceRestores ==
    [][\A p \in Peers :
          (pc[p].alive /\ (StartsSharing(p) \/ StopsSharing(p)))
              => /\ pc'[p].videoTrack = IF StartsSharing(p) THEN "screen" ELSE "camera"
                 /\ media'[p].audioEnabled = media[p].audioEnabled
                 /\ media'[p].tracks = media[p].tracks
                 /\ Negotiation(pc'[p]) = Negotiation(pc[p])
                 /\ chain'[p] = chain[p]]_vars

\* a page used both clicks on the share control: its negotiated connection
\* sends the camera again
C25_Witness ==
    \E p \in Peers :
        /\ budget.toggles = 0
        /\ media[p].capture = "none"
        /\ ~media[p].isScreenSharing
        /\ ~media[p].screenTrack
        /\ media[p].audioEnabled /\ media[p].videoEnabled
        /\ pc[p].alive /\ pc[p].sig = "stable" /\ pc[p].curRemote # NoDesc
        /\ pc[p].videoTrack = "camera"
        /\ \E m \in net : m.senderId = p /\ m.type = "screen-share-status" /\ ~m.flag

\* C26: the step in which a page in the room starts sharing publishes a
\* screen-share-status with the value true, and the step in which it stops,
\* by the control or because the captured source ended, publishes one with
\* the value false, holds no screen track and has the camera on the sender.
C26_ShareStatusBothWays ==
    [][\A p \in Peers :
          /\ StartsSharing(p) =>
                 Send(p, "screen-share-status", NoDesc, "screen", TRUE)' \subseteq net'
          /\ StopsSharing(p) =>
                 /\ Send(p, "screen-share-status", NoDesc, "screen", FALSE)' \subseteq net'
                 /\ ~media'[p].screenTrack
                 /\ pc'[p].alive => pc'[p].videoTrack = "camera"]_vars

\* the captured source of a page with a connection has ended, and its peer
\* is in the room to be told
C26_Witness ==
    /\ last.ev = "ended"
    /\ pc[last.p].alive
    /\ pc[last.p].videoTrack = "camera"
    /\ ~media[last.p].isScreenSharing
    /\ \E m \in net : m.senderId = last.p /\ m.type = "screen-share-status" /\ ~m.flag

\* C28: the step in which getDisplayMedia() is refused leaves the page not
\* sharing, without screen track, its sender (if any) on the camera track,
\* and publishes nothing.
C28_RefusedCaptureReverts ==
    [][(last'.ev = "capture" /\ ~last'.ok) =>
          /\ ~media'[last'.p].isScreenSharing
          /\ ~media'[last'.p].screenTrack
          /\ pc'[last'.p] = pc[last'.p]
          /\ pc'[last'.p].alive => pc'[last'.p].videoTrack = "camera"
          /\ net' = net]_vars

\* a page with a connection was refused the capture
C28_Witness ==
    /\ last.ev = "capture"
    /\ ~last.ok
    /\ pc[last.p].alive
    /\ media[last.p].capture = "none"

\* C27: every step in which a page in the room flips the enabled flag of its
\* microphone or camera track publishes a media-status with the kind and the
\* new value, and leaves the negotiation state and the pending operations
\* as they were, whether or not the screen is being shared.
C27_TogglePublishes ==
    [][\A p \in Peers :
          (inRoom[p] /\ inRoom'[p] /\ media[p].tracks /\ media'[p].tracks) =>
              /\ media'[p].audioEnabled # media[p].audioEnabled =>
                     /\ \E on \in BOOLEAN :
                            /\ on = media'[p].audioEnabled
                            /\ Send(p, "media-status", NoDesc, "audio", on)' \subseteq net'
                     /\ Negotiation(pc'[p]) = Negotiation(pc[p])
                     /\ chain'[p] = chain[p]
              /\ media'[p].videoEnabled # media[p].videoEnabled =>
                     /\ \E on \in BOOLEAN :
                            /\ on = media'[p].videoEnabled
                            /\ Send(p, "media-status", NoDesc, "video", on)' \subseteq net'
                     /\ Negotiation(pc'[p]) = Negotiation(pc[p])
                     /\ chain'[p] = chain[p]]_vars

\* the operations of the object useWebRTC returns to the page
Exposed(p) ==
    \/ JoinRoom(p)
    \/ LeaveRoom(p)
    \/ ToggleMic(p)
    \/ ToggleCamera(p)
    \/ ToggleScreenShare(p)

\* the step closed the Session of the page, dropped its buffered candidates
\* and restarted discovery, the page staying in the room
Reconnects(p) ==
    /\ inRoom'[p]
    /\ disc'[p]
    /\ ~pc'[p].alive \/ (pc'[p].sig = "stable" /\ pc'[p].ice = "new")
    /\ pc'[p].curLocal = NoDesc /\ pc'[p].curRemote = NoDesc
    /\ pc'[p].pendLocal = NoDesc /\ pc'[p].pendRemote = NoDesc
    /\ queue'[p] = <<>>
    /\ chain'[p] = <<>>

\* C30: a page that holds a negotiated Session can reconnect by hand: one of
\* the operations exposed to the page closes the Session, discards the
\* negotiation state and restarts the Discovery Loop.
C30_ManualReconnectExposed ==
    \A p \in Peers :
        (/\ inRoom[p]
         /\ pc[p].alive
         /\ pc[p].curRemote # NoDesc
         /\ budget.leaves > 0
         /\ budget.toggles > 0)
            => ENABLED (Exposed(p) /\ Reconnects(p))

\* C29: with both pages in the room, no capture pending and every envelope
\* delivered, each page displays for its peer the flags the peer holds.
C29_RemoteMirrorsLocal ==
    \A p \in Peers : \A q \in Peers \ {p} :
        (/\ inRoom[p] /\ inRoom[q]
         /\ media[p].tracks /\ media[q].tracks
         /\ media[p].capture = "none"
         /\ net = {})
            => /\ media[q].remoteIsMicOn = media[p].audioEnabled
               /\ media[q].remoteIsCameraOn = media[p].videoEnabled
               /\ media[q].remoteIsScreenSharing = media[p].isScreenSharing

\* C31: a tick of the discovery interval, which calls signaling.joinRoom()
\* with the room already joined, leaves a join envelope on the relay for
\* every other page in the room.
C31_HeartbeatSent ==
    [][\A p \in Peers :
          (disc[p] /\ budget'.joins[p] < budget.joins[p])
              => Send(p, "join", NoDesc, "none", FALSE)' \subseteq net']_vars

\* C32: an answer a page holds as its remote description answers the offer
\* it holds as its local description.
C32_AnswerMatchesOffer ==
    \A p \in Peers :
        (pc[p].alive /\ pc[p].curRemote.t = "answer")
            => /\ pc[p].curLocal.t = "offer"
               /\ pc[p].curRemote.re = pc[p].curLocal.by
               /\ pc[p].curRemote.n = pc[p].curLocal.n

\* C33: in a room of two pages the page with the smaller identifier never
\* creates an offer, the two pages are never both in have-local-offer, and no
\* offer is under way to a page that is in have-local-offer.
C33_OnlyLargerOffers ==
    /\ \A p \in members : \A q \in members \ {p} :
           ~isCaller(userId(p), userId(q))
               => /\ made[p].offers = 0
                  /\ CreateOffers(chain[p]) = 0
                  /\ pc[p].pendLocal.t # "offer"
                  /\ pc[p].curLocal.t # "offer"
                  /\ pc[p].sig # "have-local-offer"
                  /\ \A m \in net : m.type = "offer" => m.senderId # p
    /\ \A m \in net : m.type = "offer" => pc[m.to].sig # "have-local-offer"

\* the page with the larger identifier has published an offer that is on its
\* way to a page holding a connection
C33_Witness ==
    \E m \in net :
        /\ m.type = "offer"
        /\ isCaller(userId(m.senderId), userId(m.to))
        /\ pc[m.senderId].sig = "have-local-offer"
        /\ pc[m.to].alive
        /\ pc[m.to].sig = "stable"

\* C34: when a candidate that was not buffered is handed to the engine, every
\* candidate that was waiting in the buffer when it arrived has been handed
\* over already.
C34_ArrivalOrderKept ==
    [][\A p \in Peers :
          (/\ chain[p] # <<>>
           /\ Head(chain[p]).at = 453
           /\ Len(pc'[p].handed) = Len(pc[p].handed) + 1)
              => \A i \in 1..Len(Head(chain[p]).ahead) :
                     \E j \in 1..Len(pc[p].handed) :
                         pc[p].handed[j].cand = Head(chain[p]).ahead[i]]_vars

\* C35: a page that is in the room and whose Session is not connected has
\* its discovery interval set.
C35_DiscoveryWhileNotConnected ==
    \A p \in Peers :
        (inRoom[p] /\ ~(pc[p].alive /\ pc[p].ice \in {"connected", "completed"}))
            => disc[p]

\* C36: a page that is not in the room shows what a page that never joined
\* shows: no Session, empty buffer, no interval set, connectivity new,
\* quality 4, its own flags and the flags displayed for the peer at their
\* defaults.
C36_LeaveRestoresInitial ==
    \A p \in Peers :
        ~inRoom[p]
            => /\ ~pc[p].alive
               /\ queue[p] = <<>>
               /\ ~disc[p]
               /\ ui[p].connectionState = NoUi.connectionState
               /\ ui[p].networkQuality = NoUi.networkQuality
               /\ ui[p].remoteUserName = NoUi.remoteUserName
               /\ media[p].audioEnabled = NoMedia.audioEnabled
               /\ media[p].videoEnabled = NoMedia.videoEnabled
               /\ media[p].isScreenSharing = NoMedia.isScreenSharing
               /\ media[p].remoteIsMicOn = NoMedia.remoteIsMicOn
               /\ media[p].remoteIsCameraOn = NoMedia.remoteIsCameraOn
               /\ media[p].remoteIsScreenSharing = NoMedia.remoteIsScreenSharing

\* C37: while a page shares its screen, the video sender of its Session
\* carries the screen track.
C37_SenderCarriesScreen ==
    \A p \in Peers :
        (inRoom[p] /\ pc[p].alive /\ media[p].isScreenSharing)
            => pc[p].videoTrack = "screen"

\* C38: no two entries of a page's message list carry the same identifier.
C38_MessageIdsUnique ==
    \A p \in Peers :
        \A i, j \in 1..Len(ui[p].messages) :
            ui[p].messages[i].id = ui[p].messages[j].id => i = j

\* C39: with both pages in the room, no key stroke left and every sync-notes
\* envelope delivered, the two pages hold the same note.
C39_NotesConverge ==
    (/\ \A p \in members : inRoom[p]
     /\ budget.edits = 0
     /\ \A m \in net : m.type # "sync-notes")
        => \A p, q \in members : ui[p].content = ui[q].content

====
